---- MODULE Spec2Model ----
(***************************************************************************)
(* BOM Vergelijker (BomVergelijker3.py): the Teamcenter part of the        *)
(* script, from the classified BOM table to the order list (bestellijst).  *)
(*                                                                         *)
(* A Python str is a sequence of one-character strings.  A quantity is an  *)
(* integer: the floats of the script are exact on the small whole numbers  *)
(* used here.  An item number is a positive integer; parentpart 0 stands   *)
(* for the empty parentpart cell (NaN) of the root row.                    *)
(***************************************************************************)
EXTENDS Integers, Sequences, FiniteSets

\* ------------------------------------------------------------------ bounds
\* Longest table body (rows besides the level-0 row) that Init draws.
MaxRows == 3
\* Depth of the Python call stack at which traverse raises RecursionError.
\* The interpreter's limit is 1000; a table of n rows nests traverse deeper
\* than n + 1 only by walking a cycle, so any limit above MaxRows + 1 is
\* reached by the same tables (those with a phantom cycle).
MaxDepth == 5

\* ------------------------------------------------------------ Python str
NaN == <<"NaN">>

\* c.lower() of one character.  The file is read as ISO-8859-1, so a cell holds
\* characters up to U+00FF: the capitals are A-Z and the accented ones below.
LowerChar(c) ==
  CASE c = "A" -> "a" [] c = "B" -> "b" [] c = "C" -> "c" [] c = "D" -> "d"
    [] c = "E" -> "e" [] c = "F" -> "f" [] c = "G" -> "g" [] c = "H" -> "h"
    [] c = "I" -> "i" [] c = "J" -> "j" [] c = "K" -> "k" [] c = "L" -> "l"
    [] c = "M" -> "m" [] c = "N" -> "n" [] c = "O" -> "o" [] c = "P" -> "p"
    [] c = "Q" -> "q" [] c = "R" -> "r" [] c = "S" -> "s" [] c = "T" -> "t"
    [] c = "U" -> "u" [] c = "V" -> "v" [] c = "W" -> "w" [] c = "X" -> "x"
    [] c = "Y" -> "y" [] c = "Z" -> "z" [] c = "À" -> "à" [] c = "Á" -> "á"
    [] c = "Â" -> "â" [] c = "Ã" -> "ã" [] c = "Ä" -> "ä" [] c = "Å" -> "å"
    [] c = "Æ" -> "æ" [] c = "Ç" -> "ç" [] c = "È" -> "è" [] c = "É" -> "é"
    [] c = "Ê" -> "ê" [] c = "Ë" -> "ë" [] c = "Ì" -> "ì" [] c = "Í" -> "í"
    [] c = "Î" -> "î" [] c = "Ï" -> "ï" [] c = "Ð" -> "ð" [] c = "Ñ" -> "ñ"
    [] c = "Ò" -> "ò" [] c = "Ó" -> "ó" [] c = "Ô" -> "ô" [] c = "Õ" -> "õ"
    [] c = "Ö" -> "ö" [] c = "Ø" -> "ø" [] c = "Ù" -> "ù" [] c = "Ú" -> "ú"
    [] c = "Û" -> "û" [] c = "Ü" -> "ü" [] c = "Ý" -> "ý" [] c = "Þ" -> "þ" [] OTHER -> c

\* str(v): a missing cell (NaN) prints as "nan".
Str(v) == IF v = NaN THEN <<"n","a","n">> ELSE v

\* s.lower()
Lower(s) == [i \in 1..Len(s) |-> LowerChar(s[i])]

\* The characters str.isspace() holds of, up to U+00FF: tab, line feed,
\* vertical tab, form feed, carriage return, U+001C..U+001F, blank, U+0085
\* and the no-break space U+00A0.
Whitespace ==
  {"\t", "\n", "", "\f", "\r", "", "", "", "", " ", "", " "}

RECURSIVE LStrip(_)
LStrip(s) == IF s # <<>> /\ Head(s) \in Whitespace THEN LStrip(Tail(s)) ELSE s

RECURSIVE RStrip(_)
RStrip(s) ==
  IF s # <<>> /\ s[Len(s)] \in Whitespace
  THEN RStrip(SubSeq(s, 1, Len(s) - 1))
  ELSE s

\* s.strip()
Strip(s) == RStrip(LStrip(s))

\* sub in s
Contains(s, sub) ==
  \E i \in 0..(Len(s) - Len(sub)) : SubSeq(s, i + 1, i + Len(sub)) = sub

purch == <<"p","u","r","c","h">>
production == <<"p","r","o","d","u","c","t","i","o","n">>
phantom == <<"p","h","a","n","t","o","m">>
mm == <<"m","m">>

\* ---------------------------------------------------------- classification
Types == {"buy", "make", "phantom", "unknown"}

\* (mutant) "phantom" is looked for in linetype alone
classify_LinetypeOnly(row) ==
  LET makebuy == Lower(Strip(Str(row.makebuy)))
      linetype == Lower(Strip(Str(row.linetype)))
  IN  IF Contains(makebuy, purch) THEN "buy"
      ELSE IF Contains(makebuy, production)
           THEN IF Contains(linetype, phantom) THEN "phantom" ELSE "make"
           ELSE "unknown"

\* classify(row): str(...).strip().lower() of both cells, then the substring tests
classify(row) ==
  LET makebuy == Lower(Strip(Str(row.makebuy)))
      linetype == Lower(Strip(Str(row.linetype)))
  IN  IF Contains(makebuy, purch) THEN "buy"
      ELSE IF Contains(makebuy, production)
           THEN IF Contains(makebuy, phantom) \/ Contains(linetype, phantom)
                THEN "phantom"
                ELSE "make"
           ELSE "unknown"

\* (mutant) the template is searched as written, without lower()
is_length_item_AsWritten(row) == Contains(Str(row.template), mm)

\* 'mm' in str(row.get('template', '')).lower()
is_length_item(row) == Contains(Lower(Str(row.template)), mm)

\* ------------------------------------------------------------ input tables
Items == {1, 2, 3}

Purchased == <<"P","u","r","c","h","a","s","e","d">>
Production == <<"P","r","o","d","u","c","t","i","o","n">>
ProductionPhantom ==
  <<"P","r","o","d","u","c","t","i","o","n"," ","-"," ","P","h","a","n","t","o","m">>
NoneMB == <<"N","o","n","e">>
Normal == <<"N","o","r","m","a","l">>
Phantom == <<"P","h","a","n","t","o","m">>
EA == <<"E","A">>
TubeMM == <<"T","u","b","e"," ","M","M">>

\* A missing productname cell.
NaNName == "NaN"

Row(p, c, q, mb, lt, tpl, name, lvl) ==
  [parentpart |-> p, item |-> c, qtyper |-> q, makebuy |-> mb,
   linetype |-> lt, template |-> tpl, productname |-> name, level |-> lvl]

\* The level-0 row of item 1.
RootRow == Row(0, 1, 1, Production, Normal, EA, "Machine", 0)

\* The rows a table body is drawn from: two parallel phantom edges 1->2; a
\* buy, a length buy and an unknown row on the same edge 2->3 with the same
\* quantity; a phantom self-reference 2->2; a make row without productname
\* and a make length row 1->3; a phantom edge 2->3; a buy row and a phantom
\* row 3->2 with the same quantity (the latter closes the cycle 2->3->2).
RowPool ==
  { Row(1, 2, 2, Production, Phantom, EA, "Frame", 1),
    Row(1, 2, 3, ProductionPhantom, Normal, EA, "Frame", 1),
    Row(2, 3, 3, Purchased, Normal, EA, "Bolt", 2),
    Row(2, 3, 3, Purchased, Normal, TubeMM, "Tube", 2),
    Row(2, 3, 3, NoneMB, Normal, EA, "Bolt", 2),
    Row(2, 2, 2, Production, Phantom, EA, "Frame", 2),
    Row(1, 3, 2, Production, Normal, EA, NaNName, 1),
    Row(2, 3, 2, Production, Phantom, EA, "Bolt", 2),
    Row(3, 2, 2, Purchased, Phantom, EA, "Frame", 3),
    Row(1, 3, 3, Production, Normal, TubeMM, "Tube", 1),
    Row(3, 2, 2, ProductionPhantom, Phantom, EA, "Frame", 3) }

RECURSIVE SeqsUpTo(_, _)
SeqsUpTo(S, n) ==
  IF n = 0 THEN {<<>>}
  ELSE LET shorter == SeqsUpTo(S, n - 1)
       IN  shorter \cup {Append(s, x) : s \in shorter, x \in S}

Tables ==
  {head \o body : head \in {<<>>, <<RootRow>>}, body \in SeqsUpTo(RowPool, MaxRows)}

\* ------------------------------------------------------------------- state
VARIABLES df, type, pc, root_item, stack, seen_paths, trace_log, length_log,
          final_results, result_df

vars == <<df, type, pc, root_item, stack, seen_paths, trace_log, length_log,
          final_results, result_df>>

outputs == <<trace_log, length_log, final_results>>

EmptyLog == [c \in Items |-> <<>>]
EmptyCounter == [c \in {} |-> 0]

Init ==
  /\ df \in Tables
  /\ type = <<>>
  /\ pc = "classify"
  /\ root_item = 0
  /\ stack = <<>>
  /\ seen_paths = {}
  /\ trace_log = EmptyLog
  /\ length_log = EmptyLog
  /\ final_results = EmptyCounter
  /\ result_df = <<>>

\* Values of the makebuy and linetype cells for the classification alone.
MakeBuySamples ==
  { Purchased, Production, ProductionPhantom, NoneMB, Phantom, NaN, <<>>,
    <<" ","P","U","R","C","H"," ">>,
    <<"P","R","O","D","U","C","T","I","O","N">>,
    <<"p","r","o","d","u","c","t","i","o","n"," ","p","u","r","c","h">>,
    <<"P","r","o","d">>,
    <<"\t","P","u","r","c","h","a","s","e","d","\r","\n">> }

LineTypeSamples ==
  { Normal, Phantom, Purchased, NaN, <<>>,
    <<"P","H","A","N","T","O","M">>,
    <<" ","p","h","a","n","t","o","m"," ">>,
    <<"P","H","A","N","T","Ö","M">> }

\* One-row tables over the sample cells.
InitClassify ==
  /\ df \in {<<Row(1, 2, 2, mb, lt, EA, "Frame", 1)>> :
               mb \in MakeBuySamples, lt \in LineTypeSamples}
  /\ type = <<>>
  /\ pc = "classify"
  /\ root_item = 0
  /\ stack = <<>>
  /\ seen_paths = {}
  /\ trace_log = EmptyLog
  /\ length_log = EmptyLog
  /\ final_results = EmptyCounter
  /\ result_df = <<>>

\* df['type'] = df.apply(classify, axis=1)
Classify ==
  /\ pc = "classify"
  /\ type' = [i \in 1..Len(df) |-> classify(df[i])]
  /\ pc' = "root"
  /\ UNCHANGED <<df, root_item, stack, seen_paths, trace_log, length_log,
                 final_results, result_df>>

\* (mutant) every row is taken for a root row
root_rows_Unfiltered(t) == 1..Len(t)

\* df[df['level'] == 0], as the row numbers kept
root_rows(t) == {i \in 1..Len(t) : t[i].level = 0}

Min(S) == CHOOSE x \in S : \A y \in S : x <= y

Frame(item, multiplier, path, next) ==
  [item |-> item, multiplier |-> multiplier, path |-> path, next |-> next]

\* root_rows.empty: st.error, st.stop()
RootMissing ==
  /\ pc = "root"
  /\ root_rows(df) = {}
  /\ pc' = "stopped"
  /\ UNCHANGED <<df, type, root_item, stack, seen_paths, trace_log, length_log,
                 final_results, result_df>>

\* root_item = root_rows['item'].iloc[0]; traverse(root_item, 1, [])
RootFound ==
  /\ pc = "root"
  /\ root_rows(df) # {}
  /\ root_item' = df[Min(root_rows(df))].item
  /\ stack' = <<Frame(root_item', 1, <<>>, 1)>>
  /\ pc' = "traverse"
  /\ UNCHANGED <<df, type, seen_paths, trace_log, length_log, final_results,
                 result_df>>

\* ---------------------------------------------------------------- traverse
\* (mutant) the path is handed on as it came
NewPath_NotExtended(path, item, qty) == path

\* path + [(item, qty)]
NewPath(path, item, qty) == Append(path, <<item, qty>>)

\* (mutant) the key is the child and its quantity, without the path
PathKey_ChildOnly(path, item, child, qty) == <<<<child, qty>>>>

\* tuple(new_path + [(child, qty)])
PathKey(path, item, child, qty) == Append(NewPath(path, item, qty), <<child, qty>>)

\* (mutant) the quantities along a path are added
TotalQty_Added(multiplier, qty) == multiplier + qty

\* multiplier * qty
TotalQty(multiplier, qty) == multiplier * qty

\* (mutant) make rows are not taken for leaves
IsLeaf_BuyOnly(t) == t = "buy"

\* type_ in ['buy', 'make']
IsLeaf(t) == t \in {"buy", "make"}

\* (mutant) every row that is no buy or make row is recursed into
Descends_AnyOther(t) == t \in {"phantom", "unknown"}

\* elif type_ == 'phantom'
Descends(t) == t = "phantom"

\* The next row of df[df['parentpart'] == item] at or after row `from`, 0 when
\* the iteration is over.
NextMatch(t, item, from) ==
  LET left == {i \in from..Len(t) : t[i].parentpart = item}
  IN  IF left = {} THEN 0 ELSE Min(left)

\* log[c].append(entry)
LogAppend(log, c, entry) == [log EXCEPT ![c] = Append(@, entry)]

\* final_results[c] += v on a Counter: a missing key counts from 0
CounterAdd(cnt, c, v) ==
  [x \in (DOMAIN cnt) \cup {c} |->
     IF x = c THEN (IF c \in DOMAIN cnt THEN cnt[c] ELSE 0) + v ELSE cnt[x]]

Top == stack[Len(stack)]
CurIdx == NextMatch(df, Top.item, Top.next)
CurRow == df[CurIdx]
CurKey == PathKey(Top.path, Top.item, CurRow.item, CurRow.qtyper)
Advanced == [stack EXCEPT ![Len(stack)].next = CurIdx + 1]

\* matches.empty, or the for loop is over: return
Return ==
  /\ pc = "traverse"
  /\ CurIdx = 0
  /\ stack' = SubSeq(stack, 1, Len(stack) - 1)
  /\ pc' = IF Len(stack) = 1 THEN "aggregate" ELSE "traverse"
  /\ UNCHANGED <<df, type, root_item, seen_paths, trace_log, length_log,
                 final_results, result_df>>

\* if path_key in seen_paths: continue
RowSeen ==
  /\ pc = "traverse"
  /\ CurIdx # 0
  /\ CurKey \in seen_paths
  /\ stack' = Advanced
  /\ UNCHANGED <<df, type, pc, root_item, seen_paths, trace_log, length_log,
                 final_results, result_df>>

\* a buy or make row: trace_log, then length_log or final_results
RowLeaf ==
  /\ pc = "traverse"
  /\ CurIdx # 0
  /\ CurKey \notin seen_paths
  /\ IsLeaf(type[CurIdx])
  /\ LET child == CurRow.item
         qty == CurRow.qtyper
         total_qty == TotalQty(Top.multiplier, qty)
         entry == <<total_qty, Append(NewPath(Top.path, Top.item, qty), <<child, qty>>)>>
     IN  /\ seen_paths' = seen_paths \cup {CurKey}
         /\ trace_log' = LogAppend(trace_log, child, entry)
         /\ IF is_length_item(CurRow)
            THEN /\ length_log' = LogAppend(length_log, child, entry)
                 /\ UNCHANGED final_results
            ELSE /\ final_results' = CounterAdd(final_results, child, total_qty)
                 /\ UNCHANGED length_log
  /\ stack' = Advanced
  /\ UNCHANGED <<df, type, pc, root_item, result_df>>

\* a phantom row: traverse(child, total_qty, new_path)
RowPhantom ==
  /\ pc = "traverse"
  /\ CurIdx # 0
  /\ CurKey \notin seen_paths
  /\ ~IsLeaf(type[CurIdx])
  /\ Descends(type[CurIdx])
  /\ Len(stack) < MaxDepth
  /\ seen_paths' = seen_paths \cup {CurKey}
  /\ stack' = Append(Advanced,
                     Frame(CurRow.item, TotalQty(Top.multiplier, CurRow.qtyper),
                           NewPath(Top.path, Top.item, CurRow.qtyper), 1))
  /\ UNCHANGED <<df, type, pc, root_item, trace_log, length_log, final_results,
                 result_df>>

\* the same call at the interpreter's recursion limit: RecursionError, caught
\* by `except Exception` (st.error); nothing of the run is shown
RecursionError ==
  /\ pc = "traverse"
  /\ CurIdx # 0
  /\ CurKey \notin seen_paths
  /\ ~IsLeaf(type[CurIdx])
  /\ Descends(type[CurIdx])
  /\ Len(stack) >= MaxDepth
  /\ seen_paths' = seen_paths \cup {CurKey}
  /\ stack' = <<>>
  /\ pc' = "error"
  /\ UNCHANGED <<df, type, root_item, trace_log, length_log, final_results,
                 result_df>>

\* any other row (unknown): the key is recorded, nothing else happens
RowUnknown ==
  /\ pc = "traverse"
  /\ CurIdx # 0
  /\ CurKey \notin seen_paths
  /\ ~IsLeaf(type[CurIdx])
  /\ ~Descends(type[CurIdx])
  /\ seen_paths' = seen_paths \cup {CurKey}
  /\ stack' = Advanced
  /\ UNCHANGED <<df, type, pc, root_item, trace_log, length_log, final_results,
                 result_df>>

\* -------------------------------------------------------------- result_df
RECURSIVE SumQty(_)
SumQty(S) ==
  IF S = {} THEN 0
  ELSE LET r == CHOOSE x \in S : TRUE IN r.total_quantity + SumQty(S \ {r})

\* df[['item', 'productname']].drop_duplicates()
ItemNames(t) == {<<t[i].item, t[i].productname>> : i \in 1..Len(t)}

\* pd.DataFrame(final_results.items()).merge(..., on='item', how='left'): a
\* row per name of the item, a NaN name for an item without one
Merged(cnt, t) ==
  UNION {
    LET names == {p[2] : p \in {q \in ItemNames(t) : q[1] = c}}
    IN  {[item |-> c, productname |-> n, total_quantity |-> cnt[c]] :
           n \in IF names = {} THEN {NaNName} ELSE names}
    : c \in DOMAIN cnt }

\* groupby(['item', 'productname'], as_index=False)['total_quantity'].sum():
\* groupby leaves out the groups whose key holds a NaN
GroupSum(rows) ==
  {[item |-> k[1], productname |-> k[2],
    total_quantity |-> SumQty({r \in rows : r.item = k[1] /\ r.productname = k[2]})] :
     k \in {<<r.item, r.productname>> : r \in {x \in rows : x.productname # NaNName}}}

\* The order groupby gives names of one item (string order).
NameRank(n) ==
  CASE n = "Bolt" -> 1 [] n = "Frame" -> 2 [] n = "Machine" -> 3
    [] n = "Tube" -> 4 [] OTHER -> 5

RowBefore(a, b) ==
  \/ a.item < b.item
  \/ a.item = b.item /\ NameRank(a.productname) <= NameRank(b.productname)

\* sort_values(by='item') of the grouped frame
RECURSIVE SortByItem(_)
SortByItem(S) ==
  IF S = {} THEN <<>>
  ELSE LET first == CHOOSE a \in S : \A b \in S : RowBefore(a, b)
       IN  <<first>> \o SortByItem(S \ {first})

BuildResult ==
  /\ pc = "aggregate"
  /\ result_df' = SortByItem(GroupSum(Merged(final_results, df)))
  /\ pc' = "done"
  /\ UNCHANGED <<df, type, root_item, stack, seen_paths, trace_log, length_log,
                 final_results>>

Next ==
  \/ Classify
  \/ RootMissing
  \/ RootFound
  \/ Return
  \/ RowSeen
  \/ RowLeaf
  \/ RowPhantom
  \/ RecursionError
  \/ RowUnknown
  \/ BuildResult

Spec == Init /\ [][Next]_vars

\* The classification step alone, on the sample cells.
SpecClassify == InitClassify /\ [][Classify]_vars

\* ------------------------------------------------- traverse as one function
\* The same traverse, run to its end on a table t whose type column is ty:
\* st holds seen_paths, trace_log, length_log, final_results and whether
\* RecursionError was raised; depth is the number of traverse calls on the stack.
RECURSIVE TraverseFrom(_, _, _, _, _, _, _, _)
TraverseFrom(t, ty, st, item, multiplier, path, depth, from) ==
  LET j == NextMatch(t, item, from) IN
  IF st.err \/ j = 0 THEN st
  ELSE
    LET child == t[j].item
        qty == t[j].qtyper
        key == PathKey(path, item, child, qty)
        total_qty == TotalQty(multiplier, qty)
        entry == <<total_qty, Append(NewPath(path, item, qty), <<child, qty>>)>>
        st1 == [st EXCEPT !.seen = @ \cup {key}]
    IN  IF key \in st.seen
        THEN TraverseFrom(t, ty, st, item, multiplier, path, depth, j + 1)
        ELSE IF IsLeaf(ty[j])
        THEN TraverseFrom(t, ty,
               IF is_length_item(t[j])
               THEN [st1 EXCEPT !.trace = LogAppend(@, child, entry),
                                !.length = LogAppend(@, child, entry)]
               ELSE [st1 EXCEPT !.trace = LogAppend(@, child, entry),
                                !.final = CounterAdd(@, child, total_qty)],
               item, multiplier, path, depth, j + 1)
        ELSE IF Descends(ty[j])
        THEN IF depth >= MaxDepth
             THEN [st1 EXCEPT !.err = TRUE]
             ELSE TraverseFrom(t, ty,
                    TraverseFrom(t, ty, st1, child, total_qty,
                                 NewPath(path, item, qty), depth + 1, 1),
                    item, multiplier, path, depth, j + 1)
        ELSE TraverseFrom(t, ty, st1, item, multiplier, path, depth, j + 1)

\* classify, find the root, traverse(root_item, 1, []) on table t
Explode(t) ==
  LET ty == [i \in 1..Len(t) |-> classify(t[i])]
      st0 == [seen |-> {}, trace |-> EmptyLog, length |-> EmptyLog,
              final |-> EmptyCounter, err |-> FALSE]
  IN  TraverseFrom(t, ty, st0, t[Min(root_rows(t))].item, 1, <<>>, 1, 1)

Finished == pc \in {"aggregate", "done"}

\* The step-by-step run and the one-function run of traverse agree.
StepsAgreeWithExplode ==
  /\ Finished =>
       LET e == Explode(df)
       IN  /\ ~e.err
           /\ <<e.seen, e.trace, e.length, e.final>> =
                <<seen_paths, trace_log, length_log, final_results>>
  /\ pc = "error" => Explode(df).err

\* ------------------------------------------------------------------ claims
\* final_results[c] of a Counter: 0 for a key it does not hold
CounterGet(cnt, c) == IF c \in DOMAIN cnt THEN cnt[c] ELSE 0

\* The rows of t that are the edge item -> e[1] with quantity e[2]: all of
\* them, or (firstOnly) the first one in table order alone.
EdgeRows(t, item, e, firstOnly) ==
  LET all == {i \in 1..Len(t) :
                t[i].parentpart = item /\ t[i].item = e[1] /\ t[i].qtyper = e[2]}
  IN  IF firstOnly THEN {Min(all)} ELSE all

\* The sum, over the distinct paths (sequences of items and edge quantities)
\* that start at `item` with the product `mult` so far, pass only through
\* phantom rows and end at c in a buy or make row whose template has no "mm",
\* of the product of the quantities on the path.  E is the set of edges out
\* of `item` still to add; at most `fuel` further phantom rows are followed.
RECURSIVE PathSum(_, _, _, _, _, _, _, _)
PathSum(t, ty, item, mult, fuel, c, firstOnly, E) ==
  IF E = {} THEN 0
  ELSE
    LET e == CHOOSE x \in E : TRUE
        rows == EdgeRows(t, item, e, firstOnly)
        ends == \E i \in rows :
                  /\ ty[i] \in {"buy", "make"}
                  /\ ~Contains(Lower(Str(t[i].template)), mm)
                  /\ e[1] = c
        goesOn == fuel > 0 /\ \E i \in rows : ty[i] = "phantom"
        below == {<<t[i].item, t[i].qtyper>> :
                    i \in {k \in 1..Len(t) : t[k].parentpart = e[1]}}
    IN  (IF ends THEN mult * e[2] ELSE 0)
        + (IF goesOn
           THEN PathSum(t, ty, e[1], mult * e[2], fuel - 1, c, firstOnly, below)
           ELSE 0)
        + PathSum(t, ty, item, mult, fuel, c, firstOnly, E \ {e})

RootEdges ==
  {<<df[i].item, df[i].qtyper>> :
     i \in {k \in 1..Len(df) : df[k].parentpart = root_item}}

\* C1 as claimed: once traverse(root, 1, []) has returned, final_results[c] is
\* for every item c the sum, over every distinct path from the root through
\* phantom rows to a buy or make row of c that is no length row, of the
\* product of the qtyper values on the path.
C1_SumOverAllPaths ==
  Finished =>
    \A c \in Items :
      CounterGet(final_results, c) =
        PathSum(df, type, root_item, 1, MaxDepth - 1, c, FALSE, RootEdges)

\* C1 as amended: the same sum, where of the rows that share parentpart, item
\* and qtyper only the first in table order counts (the later ones repeat its
\* path_key and are skipped, whatever their classification or template).
C1_SumOverFirstRowPaths ==
  Finished =>
    \A c \in Items :
      CounterGet(final_results, c) =
        PathSum(df, type, root_item, 1, MaxDepth - 1, c, TRUE, RootEdges)

\* Two branches (1 -2-> 2 -3-> 3 and 1 -3-> 2 -3-> 3) reach item 3 and their
\* products 6 and 9 are added.
C1_Witness ==
  /\ pc = "done"
  /\ 3 \in DOMAIN final_results
  /\ final_results[3] = 15
  /\ Len(trace_log[3]) = 2

\* C2 as claimed: for every table with a root, cyclic or not, traverse returns
\* with finite totals and logs, so the run never ends in RecursionError.
C2_TraverseAlwaysReturns == pc # "error"

\* The row the for loop of the innermost traverse call handles in this step.
AtRow == pc = "traverse" /\ CurIdx # 0

\* The (total_qty, path) entry traverse logs for the row at hand.
EntryAtRow ==
  <<Top.multiplier * CurRow.qtyper,
    Top.path \o <<<<Top.item, CurRow.qtyper>>, <<CurRow.item, CurRow.qtyper>>>>>>

RECURSIVE SumTotals(_)
SumTotals(log) == IF log = <<>> THEN 0 ELSE Head(log)[1] + SumTotals(Tail(log))

\* A buy or make row that is not skipped goes by its own template: to
\* length_log alone when the template holds "mm" in any case, to final_results
\* alone otherwise.
C3_RowStep ==
  (AtRow /\ CurKey \notin seen_paths /\ type[CurIdx] \in {"buy", "make"}) =>
     IF Contains(Lower(Str(CurRow.template)), mm)
     THEN /\ length_log' =
               [length_log EXCEPT ![CurRow.item] = Append(@, EntryAtRow)]
          /\ final_results' = final_results
     ELSE /\ length_log' = length_log
          /\ CounterGet(final_results', CurRow.item) =
               CounterGet(final_results, CurRow.item) + EntryAtRow[1]
          /\ \A c \in Items \ {CurRow.item} :
               CounterGet(final_results', c) = CounterGet(final_results, c)

\* Every traced occurrence of an item counts in exactly one of the two totals.
C3_Split ==
  \A c \in Items :
    SumTotals(trace_log[c]) = CounterGet(final_results, c) + SumTotals(length_log[c])

\* C3: every buy or make row the traversal handles is judged by its own
\* template only: with "mm" in it the row's total_qty goes to the length total
\* of its item and never to final_results, otherwise to final_results and
\* never to the length total, also when the item is reached elsewhere by a row
\* of the other kind.
C3_JudgedByOwnTemplate == [][C3_RowStep]_vars /\ []C3_Split

\* Item 3 was reached by a length row and by a row that is none.
C3_Witness ==
  /\ Finished
  /\ length_log[3] # <<>>
  /\ 3 \in DOMAIN final_results

\* select the rows that are not classified unknown
RECURSIVE DropUnknown(_)
DropUnknown(t) ==
  IF t = <<>> THEN <<>>
  ELSE IF classify(Head(t)) = "unknown" THEN DropUnknown(Tail(t))
       ELSE <<Head(t)>> \o DropUnknown(Tail(t))

OutputsOf(st) == <<st.trace, st.length, st.final>>

\* C4 as claimed: an unknown row adds nothing to any output and is not
\* recursed into, so the three outputs are those of the same table without
\* its unknown rows.
C4_SameAsWithoutUnknownRows ==
  Finished => outputs = OutputsOf(Explode(DropUnknown(df)))

\* An unknown row stands before a row of another classification with the same
\* parentpart, item and qtyper.
UnknownShadows(t) ==
  \E i, j \in 1..Len(t) :
    /\ i < j
    /\ classify(t[i]) = "unknown"
    /\ classify(t[j]) # "unknown"
    /\ t[i].parentpart = t[j].parentpart
    /\ t[i].item = t[j].item
    /\ t[i].qtyper = t[j].qtyper

C4_RowStep ==
  (AtRow /\ type[CurIdx] = "unknown") =>
     /\ outputs' = outputs
     /\ Len(stack') = Len(stack)
     /\ pc' = pc

C4_Equivalence ==
  (Finished /\ ~UnknownShadows(df)) =>
     LET e == Explode(DropUnknown(df))
     IN  ~e.err /\ outputs = OutputsOf(e)

\* C4 as amended: an unknown row adds nothing to final_results, length_log or
\* trace_log and is not recursed into (its path_key does enter seen_paths);
\* the three outputs are those of the table without its unknown rows whenever
\* no unknown row stands before a row of another classification with the same
\* parentpart, item and qtyper.
C4_UnknownRowsDropped == [][C4_RowStep]_vars /\ []C4_Equivalence

\* A run that handled an unknown row (its path_key is in seen_paths and no
\* other row of the table has its parentpart, item and qtyper) and recorded
\* a total for item 3.
C4_Witness ==
  /\ Finished
  /\ \E i \in 1..Len(df) :
       /\ type[i] = "unknown"
       /\ \A j \in 1..Len(df) :
            (/\ df[j].parentpart = df[i].parentpart
             /\ df[j].item = df[i].item
             /\ df[j].qtyper = df[i].qtyper) => j = i
       /\ \E k \in seen_paths :
            /\ k[Len(k)] = <<df[i].item, df[i].qtyper>>
            /\ k[Len(k) - 1] = <<df[i].parentpart, df[i].qtyper>>
  /\ 3 \in DOMAIN final_results

RECURSIVE Product(_, _, _)
\* path[from][2] * ... * path[to][2]
Product(path, from, to) ==
  IF from > to THEN 1 ELSE path[from][2] * Product(path, from + 1, to)

HasRow(p, c, q) ==
  \E i \in 1..Len(df) :
    df[i].parentpart = p /\ df[i].item = c /\ df[i].qtyper = q

\* C6 as claimed: every trace_log entry of an item c is (total_qty, path),
\* where path lists the items from the root to c, each item after the root
\* paired with the qtyper of the edge by which it was entered, and total_qty
\* is the product of those edge quantities.
C6_PairedWithOwnQty ==
  \A c \in Items : \A n \in 1..Len(trace_log[c]) :
    LET total_qty == trace_log[c][n][1]
        path == trace_log[c][n][2]
    IN  /\ Len(path) >= 2
        /\ path[1][1] = root_item
        /\ path[Len(path)][1] = c
        /\ \A k \in 2..Len(path) : HasRow(path[k - 1][1], path[k][1], path[k][2])
        /\ total_qty = Product(path, 2, Len(path))

\* C6 as amended: path lists the items from the root to c; every item but the
\* last is paired with the qtyper of the edge that leaves it for the next item
\* of the path, the last item c with the qtyper of the edge that enters it
\* (so the last two pairs hold the same quantity), and total_qty is the
\* product of the edge quantities, one per pair but the last.
C6_PairedWithNextEdgeQty ==
  \A c \in Items : \A n \in 1..Len(trace_log[c]) :
    LET total_qty == trace_log[c][n][1]
        path == trace_log[c][n][2]
    IN  /\ Len(path) >= 2
        /\ path[1][1] = root_item
        /\ path[Len(path)][1] = c
        /\ \A k \in 1..(Len(path) - 1) :
             HasRow(path[k][1], path[k + 1][1], path[k][2])
        /\ path[Len(path)][2] = path[Len(path) - 1][2]
        /\ total_qty = Product(path, 1, Len(path) - 1)

\* The chain 1 -2-> 2 -3-> 3 was traced: item 2 stands with 3, the quantity
\* of the edge that leaves it.
C6_Witness ==
  /\ Finished
  /\ \E n \in 1..Len(trace_log[3]) :
       trace_log[3][n] = <<6, <<<<1, 2>>, <<2, 3>>, <<3, 3>>>>>>

NoLevelZero == \A i \in 1..Len(df) : df[i].level # 0

C7_State ==
  NoLevelZero =>
    /\ pc \in {"classify", "root", "stopped"}
    /\ stack = <<>>
    /\ seen_paths = {}
    /\ \A c \in Items : trace_log[c] = <<>> /\ length_log[c] = <<>>
    /\ DOMAIN final_results = {}
    /\ result_df = <<>>

C7_Step == (NoLevelZero /\ pc = "root") => pc' = "stopped"

\* C7: without a row of level 0 the run ends in the stopped state (st.error,
\* st.stop()) before traverse is called, and no result table, length total or
\* trace log comes about.
C7_MissingRootStops == []C7_State /\ [][C7_Step]_vars

\* A table with rows and none of level 0 was stopped.
C7_Witness == pc = "stopped" /\ Len(df) = 3 /\ NoLevelZero

\* C8: classify gives every row exactly one of buy, make, phantom, unknown, by
\* substring match without regard to case: buy when makebuy holds "purch",
\* whatever linetype holds; else, when makebuy holds "production", phantom if
\* makebuy or linetype holds "phantom" and make if neither does; else unknown.
C8_ClassifyPrecedence ==
  \A i \in 1..Len(type) :
    LET mb == Lower(Str(df[i].makebuy))
        lt == Lower(Str(df[i].linetype))
        isPurch == Contains(mb, purch)
        isProd == Contains(mb, production)
        isPhantom == Contains(mb, phantom) \/ Contains(lt, phantom)
    IN  /\ type[i] \in Types
        /\ isPurch => type[i] = "buy"
        /\ (~isPurch /\ isProd /\ isPhantom) => type[i] = "phantom"
        /\ (~isPurch /\ isProd /\ ~isPhantom) => type[i] = "make"
        /\ (~isPurch /\ ~isProd) => type[i] = "unknown"

\* "Production - Phantom" with a line type that says nothing was classified
\* phantom.
C8_Witness ==
  /\ Len(type) = 1
  /\ df[1].makebuy = ProductionPhantom
  /\ df[1].linetype = Normal
  /\ type[1] = "phantom"

\* The path_key of the row at hand: the pairs of the path so far, the current
\* item and the child, the last two with the quantity of the row.
KeyAtRow ==
  Top.path \o <<<<Top.item, CurRow.qtyper>>, <<CurRow.item, CurRow.qtyper>>>>

NextRowOnly ==
  /\ Len(stack') = Len(stack)
  /\ stack'[Len(stack)] = [Top EXCEPT !.next = CurIdx + 1]

C9_RowStep ==
  AtRow =>
    IF KeyAtRow \in seen_paths
    THEN /\ seen_paths' = seen_paths
         /\ outputs' = outputs
         /\ pc' = pc
         /\ NextRowOnly
    ELSE /\ seen_paths' = seen_paths \cup {KeyAtRow}
         /\ type[CurIdx] \in {"buy", "make"} =>
              trace_log' = [trace_log EXCEPT ![CurRow.item] = Append(@, EntryAtRow)]
         /\ type[CurIdx] = "phantom" =>
              \/ pc' = "error"
              \/ /\ Len(stack') = Len(stack) + 1
                 /\ stack'[Len(stack')].item = CurRow.item

\* No path is traced twice, and every traced path is a path_key on record.
C9_Once ==
  \A c \in Items : \A n \in 1..Len(trace_log[c]) :
    /\ trace_log[c][n][2] \in seen_paths
    /\ \A d \in Items : \A m \in 1..Len(trace_log[d]) :
         trace_log[c][n][2] = trace_log[d][m][2] => (c = d /\ n = m)

\* C9: within a traversal a row is skipped exactly when its path_key (the
\* pairs from the root through the current item to the child) is already in
\* seen_paths, so no path_key is handled twice, while a row that reaches an
\* item seen before under a path_key not yet in seen_paths is still handled.
C9_SkippedIffKeySeen == [][C9_RowStep]_vars /\ []C9_Once

\* Three buy or make rows lead from the root to item 3, two of them with the
\* same quantity: the repeat was skipped, the row with the other quantity
\* was handled although item 3 had been seen.
C9_Witness ==
  /\ pc = "done"
  /\ Cardinality({i \in 1..Len(df) :
                    /\ df[i].parentpart = root_item
                    /\ df[i].item = 3
                    /\ type[i] \in {"buy", "make"}}) = 3
  /\ Len(trace_log[3]) = 2
  /\ Cardinality(seen_paths) = 2

C10_RowStep ==
  /\ (AtRow /\ KeyAtRow \notin seen_paths /\ type[CurIdx] \in {"buy", "make"}) =>
        /\ trace_log' = [trace_log EXCEPT ![CurRow.item] = Append(@, EntryAtRow)]
        /\ NextRowOnly
  /\ (AtRow /\ KeyAtRow \notin seen_paths /\ type[CurIdx] = "phantom") =>
        /\ outputs' = outputs
        /\ \/ pc' = "error"
           \/ /\ Len(stack') = Len(stack) + 1
              /\ stack'[Len(stack')].item = CurRow.item
              /\ stack'[Len(stack')].multiplier = Top.multiplier * CurRow.qtyper
              /\ stack'[Len(stack')].next = 1
  /\ (pc = "traverse" /\ Len(stack') > Len(stack)) =>
        AtRow /\ type[CurIdx] = "phantom"

\* Every edge of a traced path but the last was taken by a phantom row.
C10_ThroughPhantomOnly ==
  \A c \in Items : \A n \in 1..Len(trace_log[c]) :
    LET path == trace_log[c][n][2]
    IN  \A k \in 1..(Len(path) - 2) :
          \E i \in 1..Len(df) :
            /\ df[i].parentpart = path[k][1]
            /\ df[i].item = path[k + 1][1]
            /\ df[i].qtyper = path[k][2]
            /\ type[i] = "phantom"

\* C10: the traversal descends through phantom rows only: a buy or make row
\* records its total and ends its branch (the rows below its child are not
\* handled along that path), and a phantom row adds nothing to an output for
\* its own child but hands multiplier * qty on to the rows of the child.
C10_DescendsThroughPhantomOnly ==
  [][C10_RowStep]_vars /\ []C10_ThroughPhantomOnly

\* Item 3 was recorded below the phantom item 2; the buy row below item 3 was
\* never handled.
C10_Witness ==
  /\ pc = "done"
  /\ \E n \in 1..Len(trace_log[3]) : Len(trace_log[3][n][2]) = 3
  /\ \E i \in 1..Len(df) : df[i].parentpart = 3 /\ type[i] = "buy"
  /\ trace_log[2] = <<>>

\* C5 as claimed: result_df holds, for every item of final_results, one row
\* for each distinct (item, productname) pair of the BOM table, with
\* total_quantity final_results[item]; it holds no other row, and its rows
\* ascend by item.
C5_RowPerItemAndName ==
  pc = "done" =>
    /\ \A c \in DOMAIN final_results : \A i \in 1..Len(df) :
         df[i].item = c =>
           Cardinality({n \in 1..Len(result_df) :
                          /\ result_df[n].item = c
                          /\ result_df[n].productname = df[i].productname
                          /\ result_df[n].total_quantity = final_results[c]}) = 1
    /\ \A n \in 1..Len(result_df) :
         /\ result_df[n].item \in DOMAIN final_results
         /\ \E i \in 1..Len(df) :
              /\ df[i].item = result_df[n].item
              /\ df[i].productname = result_df[n].productname
    /\ \A n, m \in 1..Len(result_df) :
         n < m => /\ result_df[n].item <= result_df[m].item
                  /\ result_df[n] # result_df[m]

====
